---------------------------- MODULE Spec2Model ----------------------------
(***************************************************************************)
(* Model of the uinput touch pad and mouse devices (src/touchpad.go).      *)
(*                                                                         *)
(* One virtual device is followed through its life: the caller creates a   *)
(* touch pad or a mouse (the device file is opened, the capabilities are   *)
(* registered one control call at a time, the descriptor is submitted),    *)
(* then calls the methods of the returned handle and Close().              *)
(*                                                                         *)
(* The environment decides which system calls fail: the open, each control *)
(* call, the descriptor submission, the close, and -- through              *)
(* file.faultIn -- the n-th write of a method call.                        *)
(***************************************************************************)
EXTENDS Integers, Sequences, FiniteSets, TLC

VARIABLES
    dev,                \* the device: setup position, file, calls issued
    last,               \* the last call of the caller and what it returned
    nOps,               \* number of method calls made on the handle
    nativeLayoutKnown,  \* platform: can the codec encode an event record
    closeFails          \* environment: close(2) of the device file reports an error

vars == <<dev, last, nOps, nativeLayoutKnown, closeFails>>

-----------------------------------------------------------------------------
(* Bounds of the model *)

\* method calls (Close included) made on one handle
MaxOps == 2

\* the largest number of writes a single method call attempts (a click: 4)
MaxWrites == 4

\* coordinates the caller passes to the touch pad
Coords == {-5, 10, 20}

\* pixel counts the caller passes to the mouse; the last is the least int32
Pixels == {-5, 5, -2147483647 - 1}

\* axis bounds the caller registers for the touch pad
AxisMins == {0}
AxisMaxs == {15}

-----------------------------------------------------------------------------
(* Event types, codes and control requests (declared outside touchpad.go) *)

evSyn == "EV_SYN"
evKey == "EV_KEY"
evRel == "EV_REL"
evAbs == "EV_ABS"

synReport  == "SYN_REPORT"
evBtnLeft  == "BTN_LEFT"
evBtnRight == "BTN_RIGHT"
absX == "ABS_X"
absY == "ABS_Y"
relX == "REL_X"
relY == "REL_Y"

btnStatePressed  == 1
btnStateReleased == 0

uiSetEvBit  == "UI_SET_EVBIT"
uiSetKeyBit == "UI_SET_KEYBIT"
uiSetRelBit == "UI_SET_RELBIT"
uiSetAbsBit == "UI_SET_ABSBIT"
uiDevCreate == "UI_DEV_CREATE"

\* index set of the [absSize]int32 arrays of the descriptor
absAxes == {absX, absY, "ABS_Z", "ABS_RX"}

busUsb == "BUS_USB"

-----------------------------------------------------------------------------
(* Errors: the chain of messages, outermost first; <<>> is nil *)

NoErr == <<>>

\* fmt.Errorf("msg: %v", err)
Errorf(msg, err) == <<msg>> \o err

ErrClosed == <<"file already closed">>
ErrIO     == <<"input/output error">>
ErrLayout == <<"native layout unknown">>
ErrCtl    == <<"control call rejected">>
ErrOpen   == <<"open failed">>

-----------------------------------------------------------------------------
(* The device file *)

\* opened/open: the descriptor was obtained / is still held; calls: what was
\* issued on the node during setup (open, control calls, descriptor), each
\* with its outcome; userDev: the descriptor the kernel accepted; data: the
\* event records written; closes: how often the descriptor was released;
\* faultIn: writes that still succeed before the environment fails one
\* (-1: none fails).
NoFile == [opened |-> FALSE, open |-> FALSE, calls |-> <<>>, userDev |-> <<>>,
           data |-> <<>>, closes |-> 0, faultIn |-> -1]

\* deviceFile.Write(buf): fails on a closed file and when the environment's
\* fault is due; a failed write leaves nothing in the file.
Write(f, buf) ==
    IF ~f.open THEN [file |-> f, err |-> ErrClosed]
    ELSE IF f.faultIn = 0 THEN [file |-> [f EXCEPT !.faultIn = -1], err |-> ErrIO]
    ELSE [file |-> [f EXCEPT !.data = Append(@, buf),
                             !.faultIn = IF @ > 0 THEN @ - 1 ELSE @],
          err |-> NoErr]

\* deviceFile.Close(): the descriptor is released once, also when close(2)
\* reports an error; closing again fails.
FileClose(f) ==
    IF ~f.open THEN [file |-> f, err |-> ErrClosed]
    ELSE [file |-> [f EXCEPT !.open = FALSE, !.closes = @ + 1],
          err |-> IF closeFails THEN ErrIO ELSE NoErr]

-----------------------------------------------------------------------------
(* Binary event codec and the helpers shared by the emitters *)

ZeroTime == [Sec |-> 0, Usec |-> 0]

\* inputEventToBuffer: the record's fields in wire order; fails only when the
\* platform's native layout cannot be determined.
inputEventToBuffer(iev) ==
    IF nativeLayoutKnown
    THEN [buf |-> <<iev.Time.Sec, iev.Time.Usec, iev.Type, iev.Code, iev.Value>>,
          err |-> NoErr]
    ELSE [buf |-> <<>>, err |-> ErrLayout]

\* the inverse of the codec, used to read the device file back
bufferToInputEvent(buf) ==
    [Time |-> [Sec |-> buf[1], Usec |-> buf[2]],
     Type |-> buf[3], Code |-> buf[4], Value |-> buf[5]]

\* syncEvents: one synchronization record
syncEvents(deviceFile) ==
    LET e == inputEventToBuffer([Time |-> ZeroTime, Type |-> evSyn,
                                 Code |-> synReport, Value |-> 0])
    IN  IF e.err # NoErr
        THEN [file |-> deviceFile, err |-> Errorf("writing sync event failed", e.err)]
        ELSE LET w == Write(deviceFile, e.buf)
             IN  IF w.err # NoErr
                 THEN [file |-> w.file, err |-> Errorf("sync failed", w.err)]
                 ELSE [file |-> w.file, err |-> NoErr]

\* sendBtnEvent: a single button record, then sync
sendBtnEvent(deviceFile, key, btnState) ==
    LET e == inputEventToBuffer([Time |-> ZeroTime, Type |-> evKey,
                                 Code |-> key, Value |-> btnState])
    IN  IF e.err # NoErr
        THEN [file |-> deviceFile, err |-> Errorf("key event could not be set", e.err)]
        ELSE LET w == Write(deviceFile, e.buf)
             IN  IF w.err # NoErr
                 THEN [file |-> w.file,
                       err |-> Errorf("writing button event failed", w.err)]
                 ELSE syncEvents(w.file)

-----------------------------------------------------------------------------
(* Touch pad emitter *)

\* one iteration of the loop of sendAbsEvent: encode, then write
writeAbsEvent(deviceFile, iev) ==
    LET e == inputEventToBuffer(iev)
    IN  IF e.err # NoErr
        THEN [file |-> deviceFile, err |-> Errorf("writing abs event failed", e.err)]
        ELSE LET w == Write(deviceFile, e.buf)
             IN  IF w.err # NoErr
                 THEN [file |-> w.file,
                       err |-> Errorf("failed to write abs event to device file", w.err)]
                 ELSE [file |-> w.file, err |-> NoErr]

\* sendAbsEvent with the two axis records in the wrong order
sendAbsEventYFirst(deviceFile, xPos, yPos) ==
    LET r1 == writeAbsEvent(deviceFile,
                  [Time |-> ZeroTime, Type |-> evAbs, Code |-> absY, Value |-> yPos])
    IN  IF r1.err # NoErr THEN r1
        ELSE LET r2 == writeAbsEvent(r1.file,
                          [Time |-> ZeroTime, Type |-> evAbs, Code |-> absX, Value |-> xPos])
             IN  IF r2.err # NoErr THEN r2
                 ELSE syncEvents(r2.file)

\* sendAbsEvent dropping the error of a failed write
sendAbsEventSwallowsWriteErr(deviceFile, xPos, yPos) ==
    LET r1 == writeAbsEvent(deviceFile,
                  [Time |-> ZeroTime, Type |-> evAbs, Code |-> absX, Value |-> xPos])
        r2 == writeAbsEvent(r1.file,
                  [Time |-> ZeroTime, Type |-> evAbs, Code |-> absY, Value |-> yPos])
    IN  IF r1.err # NoErr THEN [file |-> r1.file, err |-> NoErr]
        ELSE IF r2.err # NoErr THEN [file |-> r2.file, err |-> NoErr]
        ELSE syncEvents(r2.file)

\* sendAbsEvent going on to the sync although a write failed
sendAbsEventSyncsAfterFailure(deviceFile, xPos, yPos) ==
    LET r1 == writeAbsEvent(deviceFile,
                  [Time |-> ZeroTime, Type |-> evAbs, Code |-> absX, Value |-> xPos])
        r2 == writeAbsEvent(r1.file,
                  [Time |-> ZeroTime, Type |-> evAbs, Code |-> absY, Value |-> yPos])
        s  == syncEvents(r2.file)
    IN  IF r1.err # NoErr THEN [file |-> s.file, err |-> r1.err]
        ELSE IF r2.err # NoErr THEN [file |-> s.file, err |-> r2.err]
        ELSE s

sendAbsEvent(deviceFile, xPos, yPos) ==
    LET ev == << [Time |-> ZeroTime, Type |-> evAbs, Code |-> absX, Value |-> xPos],
                 [Time |-> ZeroTime, Type |-> evAbs, Code |-> absY, Value |-> yPos] >>
        r1 == writeAbsEvent(deviceFile, ev[1])
    IN  IF r1.err # NoErr THEN r1
        ELSE LET r2 == writeAbsEvent(r1.file, ev[2])
             IN  IF r2.err # NoErr THEN r2
                 ELSE syncEvents(r2.file)

\* MoveTo clamping the coordinates to the bounds of the descriptor
vTouchPadMoveToClamped(deviceFile, x, y) ==
    LET u  == deviceFile.userDev[1]
        cl(v, lo, hi) == IF v < lo THEN lo ELSE IF v > hi THEN hi ELSE v
    IN  sendAbsEvent(deviceFile, cl(x, u.Absmin[absX], u.Absmax[absX]),
                                 cl(y, u.Absmin[absY], u.Absmax[absY]))

vTouchPadMoveTo(deviceFile, x, y) == sendAbsEvent(deviceFile, x, y)

\* LeftClick going on to the release without looking at the press's error
vTouchPadLeftClickIgnoresPressErr(deviceFile) ==
    LET r == sendBtnEvent(deviceFile, evBtnLeft, btnStatePressed)
    IN  sendBtnEvent(r.file, evBtnLeft, btnStateReleased)

vTouchPadLeftClick(deviceFile) ==
    LET r == sendBtnEvent(deviceFile, evBtnLeft, btnStatePressed)
    IN  IF r.err # NoErr
        THEN [file |-> r.file, err |-> Errorf("Failed to issue the LeftClick event", r.err)]
        ELSE sendBtnEvent(r.file, evBtnLeft, btnStateReleased)

vTouchPadRightClick(deviceFile) ==
    LET r == sendBtnEvent(deviceFile, evBtnRight, btnStatePressed)
    IN  IF r.err # NoErr
        THEN [file |-> r.file, err |-> Errorf("Failed to issue the RightClick event", r.err)]
        ELSE sendBtnEvent(r.file, evBtnRight, btnStateReleased)

\* RightRelease releasing the other button
vTouchPadRightReleaseReleasesLeft(deviceFile) ==
    sendBtnEvent(deviceFile, evBtnLeft, btnStateReleased)

vTouchPadLeftPress(deviceFile)    == sendBtnEvent(deviceFile, evBtnLeft, btnStatePressed)
vTouchPadLeftRelease(deviceFile)  == sendBtnEvent(deviceFile, evBtnLeft, btnStateReleased)
vTouchPadRightPress(deviceFile)   == sendBtnEvent(deviceFile, evBtnRight, btnStatePressed)
vTouchPadRightRelease(deviceFile) == sendBtnEvent(deviceFile, evBtnRight, btnStateReleased)

\* closeDevice: the standard handle-close, which destroys the device node
closeDevice(deviceFile) ==
    LET c == FileClose(deviceFile)
    IN  IF c.err # NoErr
        THEN [file |-> c.file, err |-> Errorf("failed to close device", c.err)]
        ELSE c

\* Close returning without releasing the device file
vTouchPadCloseLeavesOpen(deviceFile) == [file |-> deviceFile, err |-> NoErr]

vTouchPadClose(deviceFile) == closeDevice(deviceFile)

-----------------------------------------------------------------------------
(* Mouse emitter *)

\* the least int32
MinInt32 == -2147483647 - 1

\* a 16-bit half as a signed value
wrap16(h) == ((h + 32768) % 65536) - 32768

\* a negation that saturates at the greatest int32 instead of wrapping
negInt32Saturating(pixel) ==
    IF pixel = MinInt32 THEN 2147483647 ELSE 0 - pixel

\* -pixel in int32, computed as the machine does: the complement of the
\* bits plus one, on the two 16-bit halves of the word, the carry out of the
\* upper half being lost
negInt32(pixel) ==
    LET hi    == pixel \div 65536
        lo    == pixel % 65536
        nlo   == 65535 - lo
        nhi   == (0 - hi) - 1
        sum   == nlo + 1
        carry == sum \div 65536
    IN  wrap16(nhi + carry) * 65536 + (sum % 65536)

\* sendRelEvent dropping the error of the trailing sync
sendRelEventIgnoresSyncErr(deviceFile, eventCode, pixel) ==
    LET e == inputEventToBuffer([Time |-> ZeroTime, Type |-> evRel,
                                 Code |-> eventCode, Value |-> pixel])
    IN  IF e.err # NoErr
        THEN [file |-> deviceFile, err |-> Errorf("writing abs event failed", e.err)]
        ELSE LET w == Write(deviceFile, e.buf)
             IN  IF w.err # NoErr
                 THEN [file |-> w.file,
                       err |-> Errorf("failed to write rel event to device file", w.err)]
                 ELSE [file |-> syncEvents(w.file).file, err |-> NoErr]

sendRelEvent(deviceFile, eventCode, pixel) ==
    LET e == inputEventToBuffer([Time |-> ZeroTime, Type |-> evRel,
                                 Code |-> eventCode, Value |-> pixel])
    IN  IF e.err # NoErr
        THEN [file |-> deviceFile, err |-> Errorf("writing abs event failed", e.err)]
        ELSE LET w == Write(deviceFile, e.buf)
             IN  IF w.err # NoErr
                 THEN [file |-> w.file,
                       err |-> Errorf("failed to write rel event to device file", w.err)]
                 ELSE syncEvents(w.file)

\* MoveLeft passing the pixel count on without negating it
vMouseMoveLeftNotNegated(deviceFile, pixel) == sendRelEvent(deviceFile, relX, pixel)

vMouseMoveLeft(deviceFile, pixel)  == sendRelEvent(deviceFile, relX, negInt32(pixel))
vMouseMoveRight(deviceFile, pixel) == sendRelEvent(deviceFile, relX, pixel)
vMouseMoveUp(deviceFile, pixel)    == sendRelEvent(deviceFile, relY, negInt32(pixel))
vMouseMoveDown(deviceFile, pixel)  == sendRelEvent(deviceFile, relY, pixel)

\* LeftClick attempting the release although the press failed
vMouseLeftClickReleasesAfterFailedPress(deviceFile) ==
    LET r  == sendBtnEvent(deviceFile, evBtnLeft, btnStatePressed)
        r2 == sendBtnEvent(r.file, evBtnLeft, btnStateReleased)
    IN  IF r.err # NoErr
        THEN [file |-> r2.file, err |-> Errorf("Failed to issue the LeftClick event", r.err)]
        ELSE r2

vMouseLeftClick(deviceFile) ==
    LET r == sendBtnEvent(deviceFile, evBtnLeft, btnStatePressed)
    IN  IF r.err # NoErr
        THEN [file |-> r.file, err |-> Errorf("Failed to issue the LeftClick event", r.err)]
        ELSE sendBtnEvent(r.file, evBtnLeft, btnStateReleased)

\* RightClick releasing the other button
vMouseRightClickReleasesLeft(deviceFile) ==
    LET r == sendBtnEvent(deviceFile, evBtnRight, btnStatePressed)
    IN  IF r.err # NoErr
        THEN [file |-> r.file, err |-> Errorf("Failed to issue the RightClick event", r.err)]
        ELSE sendBtnEvent(r.file, evBtnLeft, btnStateReleased)

vMouseRightClick(deviceFile) ==
    LET r == sendBtnEvent(deviceFile, evBtnRight, btnStatePressed)
    IN  IF r.err # NoErr
        THEN [file |-> r.file, err |-> Errorf("Failed to issue the RightClick event", r.err)]
        ELSE sendBtnEvent(r.file, evBtnRight, btnStateReleased)

vMouseLeftPress(deviceFile)    == sendBtnEvent(deviceFile, evBtnLeft, btnStatePressed)
vMouseLeftRelease(deviceFile)  == sendBtnEvent(deviceFile, evBtnLeft, btnStateReleased)
vMouseRightPress(deviceFile)   == sendBtnEvent(deviceFile, evBtnRight, btnStatePressed)
vMouseRightRelease(deviceFile) == sendBtnEvent(deviceFile, evBtnRight, btnStateReleased)

vMouseClose(deviceFile) == closeDevice(deviceFile)

-----------------------------------------------------------------------------
(* Control channel and device setup *)

DevicePath == "/dev/uinput"
DeviceName == "virtual device"

\* createDeviceFile(path): opens the control node
createDeviceFile(path, ok) ==
    IF ok
    THEN [file |-> [NoFile EXCEPT !.opened = TRUE, !.open = TRUE,
                                  !.calls = <<[req |-> "open", arg |-> path, ok |-> TRUE]>>],
          err |-> NoErr]
    ELSE [file |-> NoFile, err |-> Errorf("could not open device file", ErrOpen)]

\* ioctl(deviceFile, request, argument): one control call; the kernel (the
\* environment) accepts or rejects it
ioctl(deviceFile, req, arg, ok) ==
    IF ~deviceFile.open THEN [file |-> deviceFile, err |-> ErrClosed]
    ELSE [file |-> [deviceFile EXCEPT
                      !.calls = Append(@, [req |-> req, arg |-> arg, ok |-> ok])],
          err |-> IF ok THEN NoErr ELSE ErrCtl]

\* registerDevice(deviceFile, evType): registers an event-type category
registerDevice(deviceFile, evType, ok) ==
    LET r == ioctl(deviceFile, uiSetEvBit, evType, ok)
    IN  IF r.err # NoErr
        THEN [file |-> r.file, err |-> Errorf("failed to register event type", r.err)]
        ELSE r

toUinputName(name) == <<"uinput name", name>>

\* createUsbDevice(deviceFile, dev): submits the final descriptor; on failure
\* the file is closed
createUsbDevice(deviceFile, userDev, ok) ==
    LET r == ioctl(deviceFile, uiDevCreate, "descriptor", ok)
    IN  IF r.err # NoErr
        THEN [file |-> FileClose(r.file).file,
              err |-> Errorf("failed to create device", r.err)]
        ELSE [file |-> [r.file EXCEPT !.userDev = <<userDev>>], err |-> NoErr]

\* the device before the caller has created anything
NoDevice == [kind |-> "none", pc |-> "Unopened", step |-> 0, handle |-> FALSE,
             err |-> NoErr, file |-> NoFile, closeCalls |-> 0,
             minX |-> 0, maxX |-> 0, minY |-> 0, maxY |-> 0]

\* a failing step of setup that returns without closing the file
abortSetupLeaksFile(d, msg, err) ==
    [d EXCEPT !.pc = "Returned", !.handle = FALSE, !.err = Errorf(msg, err)]

\* a failing step of setup: deviceFile.Close(); return nil, fmt.Errorf(...)
abortSetup(d, msg, err) ==
    [d EXCEPT !.file = FileClose(@).file, !.pc = "Returned", !.handle = FALSE,
              !.err = Errorf(msg, err)]

\* a registration that leaves out the registration after it
controlStepSkipsNext(d, s, ok) ==
    LET r == IF s.req = uiSetEvBit
             THEN registerDevice(d.file, s.arg, ok)
             ELSE ioctl(d.file, s.req, s.arg, ok)
    IN  IF r.err # NoErr
        THEN [d EXCEPT !.file = FileClose(r.file).file, !.pc = "Returned",
                       !.handle = FALSE, !.err = Errorf(s.msg, r.err)]
        ELSE [d EXCEPT !.file = r.file, !.step = @ + 2]

\* a registration that goes on although the control call failed
controlStepIgnoresFailure(d, s, ok) ==
    LET r == IF s.req = uiSetEvBit
             THEN registerDevice(d.file, s.arg, ok)
             ELSE ioctl(d.file, s.req, s.arg, ok)
    IN  [d EXCEPT !.file = r.file, !.step = @ + 1]

\* one registration of setup: the control call, then abort or go on
controlStep(d, s, ok) ==
    LET r == IF s.req = uiSetEvBit
             THEN registerDevice(d.file, s.arg, ok)
             ELSE ioctl(d.file, s.req, s.arg, ok)
    IN  IF r.err # NoErr
        THEN abortSetup([d EXCEPT !.file = r.file], s.msg, r.err)
        ELSE [d EXCEPT !.file = r.file, !.step = @ + 1]

\* createTouchPad registering the X axis before the absolute category
touchPadStepsAxisBeforeCategory ==
    << [req |-> uiSetEvBit,  arg |-> evKey,      msg |-> "failed to register key device"],
       [req |-> uiSetKeyBit, arg |-> evBtnLeft,  msg |-> "failed to register left click event"],
       [req |-> uiSetKeyBit, arg |-> evBtnRight, msg |-> "failed to register right click event"],
       [req |-> uiSetAbsBit, arg |-> absX,       msg |-> "failed to register absolute x axis events"],
       [req |-> uiSetEvBit,  arg |-> evAbs,      msg |-> "failed to register absolute axis input device"],
       [req |-> uiSetAbsBit, arg |-> absY,       msg |-> "failed to register absolute y axis events"] >>

\* the registrations of createTouchPad, in the order of the code
touchPadSteps ==
    << [req |-> uiSetEvBit,  arg |-> evKey,      msg |-> "failed to register key device"],
       [req |-> uiSetKeyBit, arg |-> evBtnLeft,  msg |-> "failed to register left click event"],
       [req |-> uiSetKeyBit, arg |-> evBtnRight, msg |-> "failed to register right click event"],
       [req |-> uiSetEvBit,  arg |-> evAbs,      msg |-> "failed to register absolute axis input device"],
       [req |-> uiSetAbsBit, arg |-> absX,       msg |-> "failed to register absolute x axis events"],
       [req |-> uiSetAbsBit, arg |-> absY,       msg |-> "failed to register absolute y axis events"] >>

\* createMouse registering the Y axis before the X axis
mouseStepsYBeforeX ==
    << [req |-> uiSetEvBit,  arg |-> evKey,      msg |-> "failed to register key device"],
       [req |-> uiSetKeyBit, arg |-> evBtnLeft,  msg |-> "failed to register left click event"],
       [req |-> uiSetKeyBit, arg |-> evBtnRight, msg |-> "failed to register right click event"],
       [req |-> uiSetEvBit,  arg |-> evRel,      msg |-> "failed to register relative axis input device"],
       [req |-> uiSetRelBit, arg |-> relY,       msg |-> "failed to register relative y axis events"],
       [req |-> uiSetRelBit, arg |-> relX,       msg |-> "failed to register relative x axis events"] >>

\* the registrations of createMouse, in the order of the code
mouseSteps ==
    << [req |-> uiSetEvBit,  arg |-> evKey,      msg |-> "failed to register key device"],
       [req |-> uiSetKeyBit, arg |-> evBtnLeft,  msg |-> "failed to register left click event"],
       [req |-> uiSetKeyBit, arg |-> evBtnRight, msg |-> "failed to register right click event"],
       [req |-> uiSetEvBit,  arg |-> evRel,      msg |-> "failed to register relative axis input device"],
       [req |-> uiSetRelBit, arg |-> relX,       msg |-> "failed to register relative x axis events"],
       [req |-> uiSetRelBit, arg |-> relY,       msg |-> "failed to register relative y axis events"] >>

\* var absMin [absSize]int32; absMin[absX] = minX; absMin[absY] = minY
absArray(xVal, yVal) ==
    [a \in absAxes |-> IF a = absX THEN xVal ELSE IF a = absY THEN yVal ELSE 0]

\* the descriptor with the minima and the maxima exchanged
touchPadUserDevMinMaxSwapped(name, minX, maxX, minY, maxY) ==
    [Name |-> toUinputName(name),
     ID |-> [Bustype |-> busUsb, Vendor |-> 18193, Product |-> 2071, Version |-> 1],
     Absmin |-> absArray(maxX, maxY),
     Absmax |-> absArray(minX, minY)]

touchPadUserDev(name, minX, maxX, minY, maxY) ==
    [Name |-> toUinputName(name),
     ID |-> [Bustype |-> busUsb, Vendor |-> 18193, Product |-> 2071, Version |-> 1],
     Absmin |-> absArray(minX, minY),
     Absmax |-> absArray(maxX, maxY)]

mouseUserDev(name) ==
    [Name |-> toUinputName(name),
     ID |-> [Bustype |-> busUsb, Vendor |-> 18193, Product |-> 2070, Version |-> 1],
     Absmin |-> [a \in absAxes |-> 0],
     Absmax |-> [a \in absAxes |-> 0]]

\* createTouchPad up to the open of the device file
createTouchPadOpen(d, minX, maxX, minY, maxY, ok) ==
    LET r == createDeviceFile(DevicePath, ok)
        t == [d EXCEPT !.kind = "touchpad", !.minX = minX, !.maxX = maxX,
                       !.minY = minY, !.maxY = maxY]
    IN  IF r.err # NoErr
        THEN [t EXCEPT !.pc = "Returned", !.handle = FALSE,
                       !.err = Errorf("could not create absolute axis input device", r.err)]
        ELSE [t EXCEPT !.pc = "Setup", !.step = 1, !.file = r.file]

\* the next registration of createTouchPad
createTouchPadStep(d, ok) == controlStep(d, touchPadSteps[d.step], ok)

\* the end of createTouchPad and of CreateTouchPad: the descriptor is
\* submitted and the handle returned
createTouchPadSubmit(d, ok) ==
    LET r == createUsbDevice(d.file,
                 touchPadUserDev(DeviceName, d.minX, d.maxX, d.minY, d.maxY), ok)
    IN  [d EXCEPT !.file = r.file, !.pc = "Returned", !.err = r.err,
                  !.handle = (r.err = NoErr)]

createMouseOpen(d, ok) ==
    LET r == createDeviceFile(DevicePath, ok)
        t == [d EXCEPT !.kind = "mouse"]
    IN  IF r.err # NoErr
        THEN [t EXCEPT !.pc = "Returned", !.handle = FALSE,
                       !.err = Errorf("could not create relative axis input device", r.err)]
        ELSE [t EXCEPT !.pc = "Setup", !.step = 1, !.file = r.file]

createMouseStep(d, ok) == controlStep(d, mouseSteps[d.step], ok)

\* CreateMouse returning the handle without looking at createMouse's error
createMouseSubmitAlwaysHandle(d, ok) ==
    LET r == createUsbDevice(d.file, mouseUserDev(DeviceName), ok)
    IN  [d EXCEPT !.file = r.file, !.pc = "Returned", !.err = r.err,
                  !.handle = TRUE]

createMouseSubmit(d, ok) ==
    LET r == createUsbDevice(d.file, mouseUserDev(DeviceName), ok)
    IN  [d EXCEPT !.file = r.file, !.pc = "Returned", !.err = r.err,
                  !.handle = (r.err = NoErr)]

NumSteps == Len(touchPadSteps)

-----------------------------------------------------------------------------
(* The state machine *)

NoCall == [op |-> "none", x |-> 0, y |-> 0, start |-> 0, fault |-> -1,
           wasOpen |-> FALSE, err |-> NoErr]

Init ==
    /\ dev = NoDevice
    /\ last = NoCall
    /\ nOps = 0
    /\ nativeLayoutKnown \in BOOLEAN
    /\ closeFails \in BOOLEAN

CreateTouchPadOpen ==
    /\ dev.pc = "Unopened"
    /\ \E minX \in AxisMins, maxX \in AxisMaxs, minY \in AxisMins, maxY \in AxisMaxs,
          ok \in BOOLEAN :
          dev' = createTouchPadOpen(dev, minX, maxX, minY, maxY, ok)
    /\ UNCHANGED <<last, nOps, nativeLayoutKnown, closeFails>>

CreateTouchPadStep ==
    /\ dev.pc = "Setup" /\ dev.kind = "touchpad" /\ dev.step <= NumSteps
    /\ \E ok \in BOOLEAN : dev' = createTouchPadStep(dev, ok)
    /\ UNCHANGED <<last, nOps, nativeLayoutKnown, closeFails>>

CreateTouchPadSubmit ==
    /\ dev.pc = "Setup" /\ dev.kind = "touchpad" /\ dev.step = NumSteps + 1
    /\ \E ok \in BOOLEAN : dev' = createTouchPadSubmit(dev, ok)
    /\ UNCHANGED <<last, nOps, nativeLayoutKnown, closeFails>>

CreateMouseOpen ==
    /\ dev.pc = "Unopened"
    /\ \E ok \in BOOLEAN : dev' = createMouseOpen(dev, ok)
    /\ UNCHANGED <<last, nOps, nativeLayoutKnown, closeFails>>

CreateMouseStep ==
    /\ dev.pc = "Setup" /\ dev.kind = "mouse" /\ dev.step <= NumSteps
    /\ \E ok \in BOOLEAN : dev' = createMouseStep(dev, ok)
    /\ UNCHANGED <<last, nOps, nativeLayoutKnown, closeFails>>

CreateMouseSubmit ==
    /\ dev.pc = "Setup" /\ dev.kind = "mouse" /\ dev.step = NumSteps + 1
    /\ \E ok \in BOOLEAN : dev' = createMouseSubmit(dev, ok)
    /\ UNCHANGED <<last, nOps, nativeLayoutKnown, closeFails>>

\* the environment's choices for one method call
Faults == -1 .. (MaxWrites - 1)

Arm(f, k)  == [f EXCEPT !.faultIn = k]
Disarm(f)  == [f EXCEPT !.faultIn = -1]

\* a method call on the handle: r is what the method returned
Call(kind, op, x, y, k, r) ==
    /\ dev' = [dev EXCEPT !.file = Disarm(r.file),
                          !.closeCalls = IF op = "Close" THEN @ + 1 ELSE @]
    /\ last' = [op |-> op, x |-> x, y |-> y, start |-> Len(dev.file.data),
                fault |-> k, wasOpen |-> dev.file.open, err |-> r.err]
    /\ nOps' = nOps + 1
    /\ UNCHANGED <<nativeLayoutKnown, closeFails>>

CanCall(kind) == dev.handle /\ dev.kind = kind /\ nOps < MaxOps

TouchPadMoveTo ==
    /\ CanCall("touchpad")
    /\ \E x \in Coords, y \in Coords, k \in Faults :
          Call("touchpad", "MoveTo", x, y, k, vTouchPadMoveTo(Arm(dev.file, k), x, y))

TouchPadLeftClick ==
    /\ CanCall("touchpad")
    /\ \E k \in Faults :
          Call("touchpad", "LeftClick", 0, 0, k, vTouchPadLeftClick(Arm(dev.file, k)))

TouchPadRightClick ==
    /\ CanCall("touchpad")
    /\ \E k \in Faults :
          Call("touchpad", "RightClick", 0, 0, k, vTouchPadRightClick(Arm(dev.file, k)))

TouchPadLeftPress ==
    /\ CanCall("touchpad")
    /\ \E k \in Faults :
          Call("touchpad", "LeftPress", 0, 0, k, vTouchPadLeftPress(Arm(dev.file, k)))

TouchPadLeftRelease ==
    /\ CanCall("touchpad")
    /\ \E k \in Faults :
          Call("touchpad", "LeftRelease", 0, 0, k, vTouchPadLeftRelease(Arm(dev.file, k)))

TouchPadRightPress ==
    /\ CanCall("touchpad")
    /\ \E k \in Faults :
          Call("touchpad", "RightPress", 0, 0, k, vTouchPadRightPress(Arm(dev.file, k)))

TouchPadRightRelease ==
    /\ CanCall("touchpad")
    /\ \E k \in Faults :
          Call("touchpad", "RightRelease", 0, 0, k, vTouchPadRightRelease(Arm(dev.file, k)))

TouchPadClose ==
    /\ CanCall("touchpad")
    /\ Call("touchpad", "Close", 0, 0, -1, vTouchPadClose(dev.file))

MouseMoveLeft ==
    /\ CanCall("mouse")
    /\ \E p \in Pixels, k \in Faults :
          Call("mouse", "MoveLeft", p, 0, k, vMouseMoveLeft(Arm(dev.file, k), p))

MouseMoveRight ==
    /\ CanCall("mouse")
    /\ \E p \in Pixels, k \in Faults :
          Call("mouse", "MoveRight", p, 0, k, vMouseMoveRight(Arm(dev.file, k), p))

MouseMoveUp ==
    /\ CanCall("mouse")
    /\ \E p \in Pixels, k \in Faults :
          Call("mouse", "MoveUp", p, 0, k, vMouseMoveUp(Arm(dev.file, k), p))

MouseMoveDown ==
    /\ CanCall("mouse")
    /\ \E p \in Pixels, k \in Faults :
          Call("mouse", "MoveDown", p, 0, k, vMouseMoveDown(Arm(dev.file, k), p))

MouseLeftClick ==
    /\ CanCall("mouse")
    /\ \E k \in Faults :
          Call("mouse", "LeftClick", 0, 0, k, vMouseLeftClick(Arm(dev.file, k)))

MouseRightClick ==
    /\ CanCall("mouse")
    /\ \E k \in Faults :
          Call("mouse", "RightClick", 0, 0, k, vMouseRightClick(Arm(dev.file, k)))

MouseLeftPress ==
    /\ CanCall("mouse")
    /\ \E k \in Faults :
          Call("mouse", "LeftPress", 0, 0, k, vMouseLeftPress(Arm(dev.file, k)))

MouseLeftRelease ==
    /\ CanCall("mouse")
    /\ \E k \in Faults :
          Call("mouse", "LeftRelease", 0, 0, k, vMouseLeftRelease(Arm(dev.file, k)))

MouseRightPress ==
    /\ CanCall("mouse")
    /\ \E k \in Faults :
          Call("mouse", "RightPress", 0, 0, k, vMouseRightPress(Arm(dev.file, k)))

MouseRightRelease ==
    /\ CanCall("mouse")
    /\ \E k \in Faults :
          Call("mouse", "RightRelease", 0, 0, k, vMouseRightRelease(Arm(dev.file, k)))

MouseClose ==
    /\ CanCall("mouse")
    /\ Call("mouse", "Close", 0, 0, -1, vMouseClose(dev.file))

Next ==
    \/ CreateTouchPadOpen
    \/ CreateTouchPadStep
    \/ CreateTouchPadSubmit
    \/ CreateMouseOpen
    \/ CreateMouseStep
    \/ CreateMouseSubmit
    \/ TouchPadMoveTo
    \/ TouchPadLeftClick
    \/ TouchPadRightClick
    \/ TouchPadLeftPress
    \/ TouchPadLeftRelease
    \/ TouchPadRightPress
    \/ TouchPadRightRelease
    \/ TouchPadClose
    \/ MouseMoveLeft
    \/ MouseMoveRight
    \/ MouseMoveUp
    \/ MouseMoveDown
    \/ MouseLeftClick
    \/ MouseRightClick
    \/ MouseLeftPress
    \/ MouseLeftRelease
    \/ MouseRightPress
    \/ MouseRightRelease
    \/ MouseClose

Spec == Init /\ [][Next]_vars

-----------------------------------------------------------------------------
(* Reading the state back *)

\* type, code and value of a written record
Rec(buf) == LET e == bufferToInputEvent(buf) IN <<e.Type, e.Code, e.Value>>

\* the records the last call wrote to the device file, in order
Written ==
    [i \in 1 .. (Len(dev.file.data) - last.start) |-> Rec(dev.file.data[last.start + i])]

AbsRec(code, v) == <<evAbs, code, v>>
KeyRec(code, v) == <<evKey, code, v>>
SyncRec         == <<evSyn, synReport, 0>>

\* no step of the last call failed: the codec works, the file was open, and
\* none of the n writes of the call was failed by the environment
NoStepFailed(n) ==
    /\ nativeLayoutKnown
    /\ last.wasOpen
    /\ (last.fault = -1 \/ last.fault >= n)

\* the i-th write (from 1) of the last call is the first step that failed
WriteFailed(i) ==
    /\ nativeLayoutKnown
    /\ last.wasOpen
    /\ last.fault = i - 1

RootCause(err) == err[Len(err)]

-----------------------------------------------------------------------------
(* C1 *)

\* C1: a MoveTo(x, y) in which no step fails writes exactly the records
\* absolute-X = x, absolute-Y = y, sync, in this order, and nothing else.
C1_MoveToWritesXYSync ==
    (last.op = "MoveTo" /\ NoStepFailed(3)) =>
        /\ last.err = NoErr
        /\ Written = << AbsRec(absX, last.x), AbsRec(absY, last.y), SyncRec >>

C1_Witness ==
    /\ last.op = "MoveTo" /\ NoStepFailed(3)
    /\ last.x = 10 /\ last.y = 20
    /\ Written = << AbsRec(absX, 10), AbsRec(absY, 20), SyncRec >>

-----------------------------------------------------------------------------
(* C2 *)

ClickRecords(code) ==
    << KeyRec(code, btnStatePressed), SyncRec, KeyRec(code, btnStateReleased), SyncRec >>

\* C2: on the touch pad and on the mouse, a LeftClick (RightClick) in which
\* no step fails writes exactly four records: pressed for the left (right)
\* button, sync, released for the same button, sync.
C2_ClickIsPressSyncReleaseSync ==
    /\ (last.op = "LeftClick" /\ NoStepFailed(4)) =>
          (last.err = NoErr /\ Written = ClickRecords(evBtnLeft))
    /\ (last.op = "RightClick" /\ NoStepFailed(4)) =>
          (last.err = NoErr /\ Written = ClickRecords(evBtnRight))

C2_Witness ==
    /\ dev.kind = "mouse"
    /\ last.op = "LeftClick" /\ NoStepFailed(4)
    /\ Len(Written) = 4
    /\ Written[1] = KeyRec(evBtnLeft, btnStatePressed)
    /\ Written[3] = KeyRec(evBtnLeft, btnStateReleased)

-----------------------------------------------------------------------------
(* C3 *)

EmitterOps == {"MoveTo", "MoveLeft", "MoveRight", "MoveUp", "MoveDown",
               "LeftClick", "RightClick", "LeftPress", "LeftRelease",
               "RightPress", "RightRelease"}

\* the last call was made on a handle on which Close() had been called: a
\* returned handle's file is open until Close() closes it
AfterClose == last.op \in EmitterOps /\ ~last.wasOpen

IsDeviceClosedErr(err) == err # NoErr /\ RootCause(err) = RootCause(ErrClosed)

\* C3 as stated: every operation after Close() returns a "device closed"
\* error and writes no record.
C3_ClosedReturnsDeviceClosed ==
    AfterClose => (IsDeviceClosedErr(last.err) /\ Written = <<>>)

\* C3 as amended: every operation after Close() returns an error and writes
\* no record; the error is the write failure on the closed file when the
\* codec can encode, and the codec's error otherwise.
C3_ClosedReturnsErrorNoWrite ==
    AfterClose =>
        /\ last.err # NoErr
        /\ Written = <<>>
        /\ nativeLayoutKnown => IsDeviceClosedErr(last.err)
        /\ ~nativeLayoutKnown => RootCause(last.err) = RootCause(ErrLayout)

C3_Witness ==
    /\ AfterClose /\ nativeLayoutKnown
    /\ last.op = "LeftPress"
    /\ IsDeviceClosedErr(last.err)
    /\ dev.file.closes = 1

-----------------------------------------------------------------------------
(* Reading the setup back *)

Calls == dev.file.calls

\* the i-th call issued on the node failed
FailedAt(i) == i \in 1 .. Len(Calls) /\ ~Calls[i].ok

SetupFailed == \E i \in 1 .. Len(Calls) : FailedAt(i)

CodeReqs == {uiSetKeyBit, uiSetRelBit, uiSetAbsBit}

\* the event-type category that owns the codes of a request
Owner(req) ==
    IF req = uiSetKeyBit THEN evKey
    ELSE IF req = uiSetRelBit THEN evRel
    ELSE evAbs

IsCode(c)     == c.req \in CodeReqs
IsCategory(c) == c.req = uiSetEvBit

\* the device node exists in the kernel
DeviceLive == dev.file.open /\ dev.file.userDev # <<>>

-----------------------------------------------------------------------------
(* C4 *)

\* what the error of a setup that failed at its i-th call has to name
StageNamed(kind, i) ==
    CASE i = 2 -> "failed to register key device"
      [] i = 3 -> "failed to register left click event"
      [] i = 4 -> "failed to register right click event"
      [] i = 5 -> IF kind = "touchpad"
                  THEN "failed to register absolute axis input device"
                  ELSE "failed to register relative axis input device"
      [] i = 6 -> IF kind = "touchpad"
                  THEN "failed to register absolute x axis events"
                  ELSE "failed to register relative x axis events"
      [] i = 7 -> IF kind = "touchpad"
                  THEN "failed to register absolute y axis events"
                  ELSE "failed to register relative y axis events"
      [] OTHER -> "failed to create device"

\* C4: when a registration step or the descriptor submission fails, the file
\* that was opened is closed before the call returns, no handle is returned,
\* the error names the failing stage, and no device is left live.
C4_SetupAbortClosesFile ==
    \A i \in 1 .. Len(Calls) :
        FailedAt(i) =>
            /\ dev.pc = "Returned"
            /\ ~dev.handle
            /\ ~dev.file.open /\ dev.file.closes = 1
            /\ dev.err # NoErr /\ dev.err[1] = StageNamed(dev.kind, i)
            /\ ~DeviceLive

C4_Witness ==
    /\ dev.kind = "touchpad" /\ dev.pc = "Returned"
    /\ FailedAt(6) /\ Calls[6].req = uiSetAbsBit
    /\ ~dev.file.open /\ dev.file.closes = 1
    /\ dev.err[1] = "failed to register absolute x axis events"

-----------------------------------------------------------------------------
(* C5 *)

\* C5: in MoveTo, if the write of the absolute-Y record fails, the
\* absolute-X record has been written, no sync is sent and an error is
\* returned; if the write of the absolute-X record fails, nothing is sent.
C5_MoveToStopsAtFailedWrite ==
    /\ (last.op = "MoveTo" /\ WriteFailed(2)) =>
          (last.err # NoErr /\ Written = << AbsRec(absX, last.x) >>)
    /\ (last.op = "MoveTo" /\ WriteFailed(1)) =>
          (last.err # NoErr /\ Written = <<>>)

C5_Witness ==
    /\ last.op = "MoveTo" /\ WriteFailed(2)
    /\ Written = << AbsRec(absX, 10) >>
    /\ last.err # NoErr

-----------------------------------------------------------------------------
(* C6 *)

Call3(req, arg) == [req |-> req, arg |-> arg, ok |-> TRUE]

-----------------------------------------------------------------------------
(* C7 *)

\* C7: a successful CreateMouse has issued, each once and in this order:
\* open, key category, left button, right button, relative category,
\* relative X, relative Y, descriptor; the descriptor carries no axis bounds.
C7_MouseSetupOrder ==
    (dev.kind = "mouse" /\ dev.pc = "Returned" /\ dev.handle) =>
        /\ Calls = << Call3("open", DevicePath),
                      Call3(uiSetEvBit, evKey),
                      Call3(uiSetKeyBit, evBtnLeft),
                      Call3(uiSetKeyBit, evBtnRight),
                      Call3(uiSetEvBit, evRel),
                      Call3(uiSetRelBit, relX),
                      Call3(uiSetRelBit, relY),
                      Call3(uiDevCreate, "descriptor") >>
        /\ Len(dev.file.userDev) = 1
        /\ \A a \in absAxes :
              /\ dev.file.userDev[1].Absmin[a] = 0
              /\ dev.file.userDev[1].Absmax[a] = 0

C7_Witness ==
    /\ dev.kind = "mouse" /\ dev.pc = "Returned" /\ dev.handle
    /\ Len(Calls) = 8
    /\ Calls[6].req = uiSetRelBit
    /\ DeviceLive

-----------------------------------------------------------------------------
(* C8 *)

\* C8: in every state of setup, aborted runs included, a button or axis code
\* is registered only after its owning category was registered successfully
\* on the same handle.
C8_CodeAfterItsCategory ==
    \A i \in 1 .. Len(Calls) :
        IsCode(Calls[i]) =>
            \E j \in 1 .. (i - 1) :
                /\ IsCategory(Calls[j])
                /\ Calls[j].arg = Owner(Calls[i].req)
                /\ Calls[j].ok

C8_Witness ==
    /\ dev.pc = "Setup" /\ dev.kind = "mouse"
    /\ Len(Calls) = 6
    /\ Calls[6] = Call3(uiSetRelBit, relX)
    /\ Calls[5] = Call3(uiSetEvBit, evRel)

-----------------------------------------------------------------------------
(* C9 *)

\* position in the lifecycle: unopened, file open with n registrations
\* done, live, closed
Rank(d) ==
    IF d.pc = "Unopened" THEN 0
    ELSE IF d.pc = "Setup" THEN d.step
    ELSE IF d.handle /\ d.file.open THEN NumSteps + 2
    ELSE NumSteps + 3

\* C9 as stated: every event-type category is registered before any button
\* or axis code is registered.
C9_AllCategoriesBeforeAnyCode ==
    \A i \in 1 .. Len(Calls) : \A j \in 1 .. Len(Calls) :
        (IsCode(Calls[i]) /\ IsCategory(Calls[j])) => j < i

\* all four codes the device needs are registered
AllCodesRegistered ==
    /\ \E i \in 1 .. Len(Calls) : Calls[i] = Call3(uiSetKeyBit, evBtnLeft)
    /\ \E i \in 1 .. Len(Calls) : Calls[i] = Call3(uiSetKeyBit, evBtnRight)
    /\ \E i \in 1 .. Len(Calls) :
          Calls[i] \in {Call3(uiSetAbsBit, absX), Call3(uiSetRelBit, relX)}
    /\ \E i \in 1 .. Len(Calls) :
          Calls[i] \in {Call3(uiSetAbsBit, absY), Call3(uiSetRelBit, relY)}

\* C9 as amended: the lifecycle only moves forward (unopened, file open,
\* key category, button codes, axis category, axis codes, live, closed) and
\* no position is revisited; the key category precedes the button codes and
\* the axis category precedes the axis codes, but the axis category follows
\* the button codes; all codes are registered before the descriptor is
\* submitted.
C9_LifecycleMovesForward ==
    /\ [][Rank(dev') >= Rank(dev)]_vars
    /\ [][(dev.pc = "Setup" /\ dev' # dev) => Rank(dev') > Rank(dev)]_vars
    /\ [](\A i \in 1 .. Len(Calls) :
             Calls[i].req = uiDevCreate =>
                 (i = Len(Calls) /\ AllCodesRegistered))
    /\ [](\A i \in 1 .. Len(Calls) : \A j \in 1 .. Len(Calls) :
             (IsCode(Calls[i]) /\ IsCategory(Calls[j])
                /\ Calls[j].arg = Owner(Calls[i].req)) => j < i)

C9_Witness ==
    /\ dev.kind = "touchpad" /\ dev.handle /\ ~dev.file.open
    /\ Rank(dev) = NumSteps + 3
    /\ Calls[5] = Call3(uiSetEvBit, evAbs)
    /\ Calls[4] = Call3(uiSetKeyBit, evBtnRight)

-----------------------------------------------------------------------------
(* C10 *)

\* C10: once a registration control call has failed, no further control call
\* and no descriptor write is issued: the failing call is the last call of
\* setup, and the file is closed right after it.
C10_NothingAfterFailedCall ==
    \A i \in 1 .. Len(Calls) :
        FailedAt(i) =>
            /\ i = Len(Calls)
            /\ dev.file.userDev = <<>>
            /\ ~dev.file.open
            /\ dev.pc = "Returned"

C10_Witness ==
    /\ dev.kind = "mouse" /\ dev.pc = "Returned"
    /\ FailedAt(3) /\ Len(Calls) = 3
    /\ Calls[3].req = uiSetKeyBit
    /\ ~dev.file.open

-----------------------------------------------------------------------------
(* C11 *)

RelRec(code, v) == <<evRel, code, v>>

\* v is the int32 that -p denotes: the opposite of p, and the least int32
\* itself when p is the least int32, whose opposite no int32 holds
IsInt32Negation(v, p) == IF p = MinInt32 THEN v = MinInt32 ELSE v + p = 0

\* the last call wrote one relative record on the axis, then one sync
WroteRelThenSync(code) ==
    /\ Len(Written) = 2
    /\ Written[1][1] = evRel /\ Written[1][2] = code
    /\ Written[2] = SyncRec

\* C11: on the mouse, when no step fails, MoveLeft(p) writes relative-X = -p,
\* MoveRight(p) relative-X = p, MoveUp(p) relative-Y = -p and MoveDown(p)
\* relative-Y = p, each as one record followed by exactly one sync.
C11_RelativeMotionSigns ==
    /\ (last.op = "MoveLeft" /\ NoStepFailed(2)) =>
          /\ last.err = NoErr /\ WroteRelThenSync(relX)
          /\ IsInt32Negation(Written[1][3], last.x)
    /\ (last.op = "MoveRight" /\ NoStepFailed(2)) =>
          /\ last.err = NoErr /\ WroteRelThenSync(relX)
          /\ Written[1][3] = last.x
    /\ (last.op = "MoveUp" /\ NoStepFailed(2)) =>
          /\ last.err = NoErr /\ WroteRelThenSync(relY)
          /\ IsInt32Negation(Written[1][3], last.x)
    /\ (last.op = "MoveDown" /\ NoStepFailed(2)) =>
          /\ last.err = NoErr /\ WroteRelThenSync(relY)
          /\ Written[1][3] = last.x

C11_Witness ==
    /\ last.op = "MoveLeft" /\ NoStepFailed(2) /\ last.x = 5
    /\ Written = << RelRec(relX, -5), SyncRec >>

-----------------------------------------------------------------------------
(* C12 *)

\* the i-th record of the device file
DataRec(i) == Rec(dev.file.data[i])

\* index of the last sync record of the records d, 0 when there is none: the
\* kernel applies the records up to it
LastSyncIn(d) ==
    LET S == {i \in 1 .. Len(d) : Rec(d[i]) = SyncRec}
    IN  IF S = {} THEN 0 ELSE CHOOSE i \in S : \A j \in S : j <= i

\* index of the last applied record of the button, 0 when there is none
LastAppliedIn(d, code) ==
    LET K == {i \in 1 .. LastSyncIn(d) :
                Rec(d[i])[1] = evKey /\ Rec(d[i])[2] = code}
    IN  IF K = {} THEN 0 ELSE CHOOSE i \in K : \A j \in K : j <= i

\* the button is logically held after the records d: the last applied
\* record of the button is a press
HeldIn(d, code) ==
    LET i == LastAppliedIn(d, code)
    IN  i > 0 /\ Rec(d[i])[3] = btnStatePressed

\* a release of the button was written but not yet applied by a sync
ReleasePendingIn(d, code) ==
    \E i \in (LastSyncIn(d) + 1) .. Len(d) :
        Rec(d[i]) = KeyRec(code, btnStateReleased)

HeldFirmIn(d, code) == HeldIn(d, code) /\ ~ReleasePendingIn(d, code)

Held(code)           == HeldIn(dev.file.data, code)
HeldFirm(code)       == HeldFirmIn(dev.file.data, code)

PressOf(code)   == IF code = evBtnLeft THEN "LeftPress" ELSE "RightPress"
ReleaseOf(code) == IF code = evBtnLeft THEN "LeftRelease" ELSE "RightRelease"
ClickOf(code)   == IF code = evBtnLeft THEN "LeftClick" ELSE "RightClick"

\* C12: after a successful LeftPress (RightPress) the button is held, and it
\* stays held across every other call on the handle until LeftRelease
\* (RightRelease) or a click of the same button is called; a press or a
\* release in which no step fails writes one button record and one sync.
C12_HeldUntilReleased ==
    /\ [](\A code \in {evBtnLeft, evBtnRight} :
            /\ (last.op = PressOf(code) /\ last.err = NoErr) =>
                  /\ HeldFirm(code)
                  /\ Written = << KeyRec(code, btnStatePressed), SyncRec >>
            /\ (last.op = ReleaseOf(code) /\ last.err = NoErr) =>
                  /\ ~Held(code)
                  /\ Written = << KeyRec(code, btnStateReleased), SyncRec >>
            /\ (last.op \in {PressOf(code), ReleaseOf(code)} /\ NoStepFailed(2)) =>
                  last.err = NoErr)
    /\ [][\A code \in {evBtnLeft, evBtnRight} :
            (HeldFirm(code) /\ last'.op \notin {ReleaseOf(code), ClickOf(code)})
                => HeldFirmIn(dev'.file.data, code)]_vars

C12_Witness ==
    /\ nOps = 2
    /\ last.op = "RightClick" /\ last.err = NoErr /\ Len(Written) = 4
    /\ HeldFirm(evBtnLeft)
    /\ ~Held(evBtnRight)

-----------------------------------------------------------------------------
(* C13 *)

MoveOps   == {"MoveLeft", "MoveRight", "MoveUp", "MoveDown"}
ButtonOps == {"LeftPress", "LeftRelease", "RightPress", "RightRelease"}
SingleOps == MoveOps \cup ButtonOps

\* the last call wrote the complete record sequence its operation defines
WroteComplete ==
    CASE last.op = "MoveTo" ->
            Written = << AbsRec(absX, last.x), AbsRec(absY, last.y), SyncRec >>
      [] last.op = "LeftClick"    -> Written = ClickRecords(evBtnLeft)
      [] last.op = "RightClick"   -> Written = ClickRecords(evBtnRight)
      [] last.op = "LeftPress"    -> Written = << KeyRec(evBtnLeft, btnStatePressed), SyncRec >>
      [] last.op = "LeftRelease"  -> Written = << KeyRec(evBtnLeft, btnStateReleased), SyncRec >>
      [] last.op = "RightPress"   -> Written = << KeyRec(evBtnRight, btnStatePressed), SyncRec >>
      [] last.op = "RightRelease" -> Written = << KeyRec(evBtnRight, btnStateReleased), SyncRec >>
      [] last.op = "MoveLeft" ->
            WroteRelThenSync(relX) /\ IsInt32Negation(Written[1][3], last.x)
      [] last.op = "MoveRight" -> Written = << RelRec(relX, last.x), SyncRec >>
      [] last.op = "MoveUp" ->
            WroteRelThenSync(relY) /\ IsInt32Negation(Written[1][3], last.x)
      [] last.op = "MoveDown" -> Written = << RelRec(relY, last.x), SyncRec >>
      [] OTHER -> FALSE

OnLiveHandle == last.op \in EmitterOps /\ last.wasOpen

\* C13 as stated: a call on a live handle writes its complete sequence and
\* returns no error, or returns an error; a single-event operation that
\* returns an error has written no record.
C13_FailedSingleOpWritesNothing ==
    OnLiveHandle =>
        /\ (last.err = NoErr /\ WroteComplete) \/ last.err # NoErr
        /\ (last.op \in SingleOps /\ last.err # NoErr) => Written = <<>>

\* C13 as amended: a call on a live handle returns no error exactly when it
\* has written its complete sequence; a single-event operation that returns
\* an error has written no record when the encoding or the write of its
\* event record failed, and its event record alone, with no sync after it,
\* when the trailing sync failed.
C13_FailedSingleOpWritesNoSync ==
    OnLiveHandle =>
        /\ (last.err = NoErr) <=> WroteComplete
        /\ (last.op \in SingleOps /\ last.err # NoErr) =>
              /\ \A i \in 1 .. Len(Written) : Written[i] # SyncRec
              /\ IF WriteFailed(2)
                 THEN Len(Written) = 1 /\ Written[1][1] \in {evRel, evKey}
                 ELSE Written = <<>>

C13_Witness ==
    /\ OnLiveHandle /\ last.op = "MoveRight" /\ WriteFailed(2)
    /\ last.err # NoErr
    /\ Written = << RelRec(relX, last.x) >>

-----------------------------------------------------------------------------
(* C14 *)

OutOfBounds(v, lo, hi) == v < lo \/ v > hi

\* C14: MoveTo(x, y) never clamps: whatever x and y are, below the
\* registered minimum or above the registered maximum included, the written
\* absolute-X and absolute-Y records carry x and y, and the call is not
\* rejected because of the bounds.
C14_MoveToNeverClamps ==
    (last.op = "MoveTo" /\ last.wasOpen) =>
        /\ \A i \in 1 .. Len(Written) :
              /\ Written[i][2] = absX => Written[i] = AbsRec(absX, last.x)
              /\ Written[i][2] = absY => Written[i] = AbsRec(absY, last.y)
        /\ NoStepFailed(3) =>
              /\ last.err = NoErr
              /\ Len(Written) = 3
              /\ Written[1][3] = last.x /\ Written[2][3] = last.y

C14_Witness ==
    /\ last.op = "MoveTo" /\ NoStepFailed(3) /\ last.err = NoErr
    /\ OutOfBounds(last.x, dev.minX, dev.maxX) /\ last.x = -5
    /\ OutOfBounds(last.y, dev.minY, dev.maxY) /\ last.y = 20
    /\ Written[1] = AbsRec(absX, -5) /\ Written[2] = AbsRec(absY, 20)

-----------------------------------------------------------------------------
(* C15 *)

\* C15: over every sequence of calls, aborted setups and repeated Close()
\* included, the device file is closed exactly once: never twice, and never
\* left open once the owner has called Close() or setup has returned an
\* error after opening it.
C15_FileClosedExactlyOnce ==
    /\ dev.file.closes <= 1
    /\ dev.file.open => dev.file.closes = 0
    /\ dev.closeCalls > 0 => (~dev.file.open /\ dev.file.closes = 1)
    /\ (dev.pc = "Returned" /\ dev.err # NoErr /\ dev.file.opened) =>
          (~dev.file.open /\ dev.file.closes = 1)

C15_Witness ==
    /\ dev.kind = "touchpad" /\ dev.handle
    /\ dev.closeCalls = 2 /\ dev.file.closes = 1 /\ ~dev.file.open
    /\ last.op = "Close" /\ last.err # NoErr

-----------------------------------------------------------------------------
(* C16 *)

\* number of writes the operation of the last call attempts
NWrites ==
    IF last.op = "MoveTo" THEN 3
    ELSE IF last.op \in {"LeftClick", "RightClick"} THEN 4
    ELSE 2

\* a step of the last emitter call failed: the encoding, or a write (the
\* sync included) on a closed file or by the environment's fault
EmitterStepFailed ==
    \/ ~nativeLayoutKnown
    \/ ~last.wasOpen
    \/ last.fault \in 0 .. (NWrites - 1)

\* the cause of the first step that failed
FirstCause ==
    IF ~nativeLayoutKnown THEN ErrLayout
    ELSE IF ~last.wasOpen THEN ErrClosed
    ELSE ErrIO

\* the first step that failed is the write of an event record (not the
\* encoding, not the sync that ends the call)
EventWriteFailed(n) ==
    nativeLayoutKnown /\ (~last.wasOpen \/ last.fault \in 0 .. (n - 1))

\* the press of a click failed
PressFailed == ~nativeLayoutKnown \/ ~last.wasOpen \/ last.fault \in {0, 1}

\* a step of setup failed: the open, a control call or the descriptor
OpenFailed == dev.pc = "Returned" /\ ~dev.file.opened

-----------------------------------------------------------------------------
(* C18 *)

\* the request that registers the codes of an event type
CodeReqOf(type) ==
    IF type = evKey THEN uiSetKeyBit
    ELSE IF type = evRel THEN uiSetRelBit
    ELSE uiSetAbsBit

\* the event type and the code were registered successfully on the handle
Registered(type, code) ==
    /\ \E j \in 1 .. Len(Calls) : Calls[j] = Call3(uiSetEvBit, type)
    /\ \E i \in 1 .. Len(Calls) : Calls[i] = Call3(CodeReqOf(type), code)

\* the open, the six registrations and the descriptor submission succeeded
RegistrationComplete ==
    /\ Len(Calls) = NumSteps + 2
    /\ \A i \in 1 .. Len(Calls) : Calls[i].ok
    /\ Calls[1].req = "open"
    /\ \A i \in 2 .. (NumSteps + 1) : Calls[i].req \in CodeReqs \cup {uiSetEvBit}
    /\ Calls[NumSteps + 2].req = uiDevCreate
    /\ dev.file.userDev # <<>>

\* C18: a handle is returned only when the open, all six registrations and
\* the descriptor submission succeeded; so no record is ever written to a
\* file whose registration is incomplete, and every key, absolute or
\* relative record written has its type and code registered on the handle.
C18_WritesOnlyRegistered ==
    /\ dev.handle => RegistrationComplete
    /\ dev.file.data # <<>> => (dev.handle /\ RegistrationComplete)
    /\ \A i \in 1 .. Len(dev.file.data) :
          DataRec(i) # SyncRec => Registered(DataRec(i)[1], DataRec(i)[2])
    /\ \A i \in 1 .. Len(dev.file.data) :
          DataRec(i)[1] = evAbs => dev.kind = "touchpad"
    /\ \A i \in 1 .. Len(dev.file.data) :
          DataRec(i)[1] = evRel => dev.kind = "mouse"

C18_Witness ==
    /\ dev.kind = "mouse" /\ dev.handle /\ RegistrationComplete
    /\ Len(dev.file.data) = 4
    /\ DataRec(1) = RelRec(relY, 5)
    /\ DataRec(3) = KeyRec(evBtnRight, btnStatePressed)
    /\ Registered(evRel, relY) /\ Registered(evKey, evBtnRight)

-----------------------------------------------------------------------------
(* C19 *)

ClickWrap(code) ==
    IF code = evBtnLeft THEN "Failed to issue the LeftClick event"
    ELSE "Failed to issue the RightClick event"

\* the press of the last click succeeded and its release failed
ReleaseFailed == nativeLayoutKnown /\ last.wasOpen /\ last.fault \in {2, 3}

\* C19: in a click, if the press step fails the release is never attempted
\* and the error is wrapped with the click's name; if the press succeeds and
\* the release step fails, the call returns an error with the press and its
\* sync already delivered, so the button is left logically held.
C19_FailedClick ==
    \A code \in {evBtnLeft, evBtnRight} :
        last.op = ClickOf(code) =>
            /\ PressFailed =>
                  /\ last.err # NoErr /\ last.err[1] = ClickWrap(code)
                  /\ Len(Written) <= 1
                  /\ \A i \in 1 .. Len(Written) :
                        Written[i] = KeyRec(code, btnStatePressed)
            /\ ReleaseFailed =>
                  /\ last.err # NoErr
                  /\ Len(Written) >= 2
                  /\ Written[1] = KeyRec(code, btnStatePressed)
                  /\ Written[2] = SyncRec
                  /\ Held(code)

C19_Witness ==
    /\ dev.kind = "mouse" /\ last.op = "LeftClick" /\ ReleaseFailed
    /\ last.err # NoErr
    /\ Written = << KeyRec(evBtnLeft, btnStatePressed), SyncRec >>
    /\ Held(evBtnLeft)

-----------------------------------------------------------------------------
(* C20 *)

\* C20: the value MoveLeft(p) and MoveUp(p) emit is the two's-complement
\* negation of p in 32 bits: for p other than -2^31 the value of opposite
\* sign and equal magnitude; for p = -2^31 the negation wraps to -2^31, the
\* record MoveRight(-2^31) (MoveDown(-2^31)) writes.
C20_NegationWraps ==
    \A code \in {relX, relY} :
        (last.op = (IF code = relX THEN "MoveLeft" ELSE "MoveUp") /\ NoStepFailed(2)) =>
            LET v == Written[1][3]
                p == last.x
            IN  /\ Written[1][1] = evRel /\ Written[1][2] = code
                /\ v >= -2147483647 - 1 /\ v <= 2147483647
                /\ p # -2147483647 - 1 =>
                      /\ v + p = 0
                      /\ p > 0 => v < 0
                      /\ p < 0 => v > 0
                /\ p = -2147483647 - 1 =>
                      Written = << RelRec(code, -2147483647 - 1), SyncRec >>

C20_Witness ==
    /\ last.op = "MoveLeft" /\ NoStepFailed(2)
    /\ last.x = -2147483647 - 1
    /\ Written[1] = RelRec(relX, last.x)
    /\ Written[1][3] < 0

-----------------------------------------------------------------------------
(* Two devices *)

(***************************************************************************)
(* A second state machine over the same variables: the caller creates two  *)
(* devices, a touch pad A and a mouse B, and calls them in any order.      *)
(* Here dev maps each handle to its device, last maps each handle to the   *)
(* calls made on it so far, and nOps counts the calls on both.             *)
(***************************************************************************)

\* calls made on the two handles together
MaxCallsTwo == 2

Handles == {"A", "B"}

KindOf(h) == IF h = "A" THEN "touchpad" ELSE "mouse"

\* the methods the caller uses in the two-device runs, and the faults
TwoOps(kind) ==
    IF kind = "touchpad"
    THEN {"MoveTo", "LeftPress", "LeftRelease", "Close"}
    ELSE {"MoveRight", "LeftPress", "RightClick", "Close"}

TwoFaults == {-1, 1}

\* the method op of a handle of the kind, called on its device file
invoke(kind, op, f, x, y) ==
    IF kind = "touchpad"
    THEN CASE op = "MoveTo"       -> vTouchPadMoveTo(f, x, y)
           [] op = "LeftClick"    -> vTouchPadLeftClick(f)
           [] op = "RightClick"   -> vTouchPadRightClick(f)
           [] op = "LeftPress"    -> vTouchPadLeftPress(f)
           [] op = "LeftRelease"  -> vTouchPadLeftRelease(f)
           [] op = "RightPress"   -> vTouchPadRightPress(f)
           [] op = "RightRelease" -> vTouchPadRightRelease(f)
           [] op = "Close"        -> vTouchPadClose(f)
    ELSE CASE op = "MoveLeft"     -> vMouseMoveLeft(f, x)
           [] op = "MoveRight"    -> vMouseMoveRight(f, x)
           [] op = "MoveUp"       -> vMouseMoveUp(f, x)
           [] op = "MoveDown"     -> vMouseMoveDown(f, x)
           [] op = "LeftClick"    -> vMouseLeftClick(f)
           [] op = "RightClick"   -> vMouseRightClick(f)
           [] op = "LeftPress"    -> vMouseLeftPress(f)
           [] op = "LeftRelease"  -> vMouseLeftRelease(f)
           [] op = "RightPress"   -> vMouseRightPress(f)
           [] op = "RightRelease" -> vMouseRightRelease(f)
           [] op = "Close"        -> vMouseClose(f)

\* one device file for all handles, as a package-level variable would be
deviceFileShared(h) == dev["A"].file

\* vTouch.deviceFile, vRel.deviceFile: the file of the handle itself
deviceFileOf(h) == dev[h].file

InitTwo ==
    /\ dev = [h \in Handles |-> NoDevice]
    /\ last = [h \in Handles |-> <<>>]
    /\ nOps = 0
    /\ nativeLayoutKnown \in BOOLEAN
    /\ closeFails \in BOOLEAN

TwoCreateOpen ==
    \E h \in Handles, ok \in BOOLEAN :
        /\ dev[h].pc = "Unopened"
        /\ dev' = [dev EXCEPT ![h] =
                      IF KindOf(h) = "touchpad"
                      THEN createTouchPadOpen(dev[h], 0, 15, 0, 15, ok)
                      ELSE createMouseOpen(dev[h], ok)]
        /\ UNCHANGED <<last, nOps, nativeLayoutKnown, closeFails>>

TwoCreateStep ==
    \E h \in Handles, ok \in BOOLEAN :
        /\ dev[h].pc = "Setup" /\ dev[h].step <= NumSteps
        /\ dev' = [dev EXCEPT ![h] =
                      IF KindOf(h) = "touchpad"
                      THEN createTouchPadStep(dev[h], ok)
                      ELSE createMouseStep(dev[h], ok)]
        /\ UNCHANGED <<last, nOps, nativeLayoutKnown, closeFails>>

TwoCreateSubmit ==
    \E h \in Handles, ok \in BOOLEAN :
        /\ dev[h].pc = "Setup" /\ dev[h].step = NumSteps + 1
        /\ dev' = [dev EXCEPT ![h] =
                      IF KindOf(h) = "touchpad"
                      THEN createTouchPadSubmit(dev[h], ok)
                      ELSE createMouseSubmit(dev[h], ok)]
        /\ UNCHANGED <<last, nOps, nativeLayoutKnown, closeFails>>

TwoCall ==
    \E h \in Handles :
        /\ dev[h].handle /\ nOps < MaxCallsTwo
        /\ \E op \in TwoOps(KindOf(h)), k \in TwoFaults :
              LET r == invoke(KindOf(h), op, Arm(deviceFileOf(h), k), 10, 20)
              IN  /\ dev' = [dev EXCEPT
                               ![h].file = Disarm(r.file),
                               ![h].closeCalls = IF op = "Close" THEN @ + 1 ELSE @]
                  /\ last' = [last EXCEPT
                                ![h] = Append(@, [op |-> op, x |-> 10, y |-> 20,
                                                  fault |-> k, err |-> r.err])]
        /\ nOps' = nOps + 1
        /\ UNCHANGED <<nativeLayoutKnown, closeFails>>

NextTwo ==
    \/ TwoCreateOpen
    \/ TwoCreateStep
    \/ TwoCreateSubmit
    \/ TwoCall

SpecTwo == InitTwo /\ [][NextTwo]_vars

-----------------------------------------------------------------------------
(* C17 *)

\* the device file as the create function returned it, before any call
AsReturned(f) == [f EXCEPT !.data = <<>>, !.open = TRUE, !.closes = 0]

\* the file after the calls cs were made on it alone, and what they returned
RECURSIVE RunAlone(_, _, _)
RunAlone(kind, f, cs) ==
    IF cs = <<>> THEN [file |-> f, errs |-> <<>>]
    ELSE LET c    == Head(cs)
             r    == invoke(kind, c.op, Arm(f, c.fault), c.x, c.y)
             rest == RunAlone(kind, Disarm(r.file), Tail(cs))
         IN  [file |-> rest.file, errs |-> <<r.err>> \o rest.errs]

ErrsOf(cs) == [i \in 1 .. Len(cs) |-> cs[i].err]

\* C17: two devices share no state: under every interleaving, the file of
\* each handle (its records, open or closed) and the results of its calls
\* are those its own calls produce when run alone, and a step of one handle,
\* its Close() or its failed setup included, changes nothing of the other.
C17_HandlesIndependent ==
    /\ [](\A h \in Handles :
            IF dev[h].handle
            THEN LET alone == RunAlone(KindOf(h), AsReturned(dev[h].file), last[h])
                 IN  /\ dev[h].file = alone.file
                     /\ ErrsOf(last[h]) = alone.errs
            ELSE last[h] = <<>> /\ dev[h].file.data = <<>>)
    /\ [][\E h \in Handles : \A g \in Handles \ {h} :
            dev'[g] = dev[g] /\ last'[g] = last[g]]_vars

\* A was closed and B, called afterwards, is open and has written its records
C17_Witness ==
    /\ dev["A"].handle /\ ~dev["A"].file.open /\ dev["A"].closeCalls = 1
    /\ Len(last["A"]) = 1
    /\ dev["B"].handle /\ dev["B"].file.open
    /\ Len(last["B"]) = 1 /\ last["B"][1].op = "MoveRight" /\ last["B"][1].err = NoErr
    /\ Len(dev["B"].file.data) = 2
    /\ nOps = 2

=============================================================================
